---- MODULE Spec2Model ----
(***************************************************************************)
(* Model of amt_augpy: the effect dispatcher process_effect (parameter     *)
(* sampling, per-variant dispatch, merge), the naming scheme with the      *)
(* effect-keyword scan of main, merge_audios, and the executor of          *)
(* process_files.                                                          *)
(*                                                                         *)
(* Numbers.  Parameter values are exact rationals [pow, n, d]: n/d in      *)
(* lowest terms when pow = FALSE, and 10^(n/d) with a non-integer exponent *)
(* when pow = TRUE (np.logspace).  Bounds of the float families are kept   *)
(* in tenths, since every random draw is round(uniform(min, max), 1).      *)
(* The configuration keeps min <= max.                                     *)
(***************************************************************************)
EXTENDS Integers, Sequences, FiniteSets, TLC

\* ---------------------------------------------------------------- bounds
MaxVariations == 3
MaxWidth == 2
MaxFailures == 1
MaxSuffixVariations == 1
MaxOutputs == 2
MaxMergeNum == 2
MaxWorkers == 3
MaxLines == 2

\* ------------------------------------------------------ program constants
max_attempts == 10

\* ------------------------------------------------------------- arithmetic
Abs(x) == IF x < 0 THEN 0 - x ELSE x

Min(a, b) == IF a < b THEN a ELSE b

RECURSIVE GCD(_, _)
GCD(a, b) == IF b = 0 THEN a ELSE GCD(b, a % b)

RECURSIVE Pow(_, _)
Pow(b, e) == IF e = 0 THEN 1 ELSE b * Pow(b, e - 1)

\* the rational p/q (q > 0) in lowest terms
Lin(p, q) ==
    LET g == GCD(Abs(p), q)
    IN  [pow |-> FALSE, n |-> p \div g, d |-> q \div g]

\* 10 ** (p/q): a rational when the exponent is an integer
Pow10(p, q) ==
    LET e == Lin(p, q)
    IN  IF e.d = 1
        THEN IF e.n >= 0 THEN Lin(Pow(10, e.n), 1) ELSE Lin(1, Pow(10, 0 - e.n))
        ELSE [pow |-> TRUE, n |-> e.n, d |-> e.d]

\* float -> int conversion of numpy's astype(int): truncation toward zero
Trunc(p, q) == IF p >= 0 THEN p \div q ELSE 0 - ((0 - p) \div q)

\* ---------------------------------------------------------------- config
ParamFamilies == {"timestretch", "pitchshift", "reverb", "chorus", "noise"}

GridFamilies == {"timestretch", "pitchshift", "noise"}

FloatFamilies == {"timestretch", "noise", "chorus"}

\* the value a family's sampling loop starts from and rejects
Identity(fam) == IF fam \in {"timestretch", "noise"} THEN Lin(1, 1) ELSE Lin(0, 1)

\* the unit of the family's bounds: tenths for round(uniform, 1), 1 for randint
Unit(fam) == IF fam \in FloatFamilies THEN 10 ELSE 1

\* lower bounds the configurations range over (in the family's unit)
LoChoices(fam) ==
    CASE fam = "timestretch" -> {9, 10, 11}
      [] fam = "noise"       -> {-1, 0, 9, 10}
      [] OTHER               -> {-1, 0, 1}

\* lower bounds of the chorus gain and depth ranges, each two values wide
ChorusLo == {0, 1}

\* one-decimal draws of round(random.uniform(lo, hi), 1), bounds in tenths
RandomUniformRound1(lo, hi) == {Lin(t, 10) : t \in lo..hi}

\* random.randint(lo, hi): both ends included
RandomRandint(lo, hi) == {Lin(k, 1) : k \in lo..hi}

\* the draws of a family's primary quantity (factor, semitones, room scale,
\* gain, intensity)
Draws(c) ==
    IF c.effect_type \in {"timestretch", "noise"}
    THEN RandomUniformRound1(c.min, c.max)
    ELSE RandomRandint(c.min, c.max)

\* the draws of the chorus depth
DepthDraws(c) == RandomUniformRound1(c.min_depth, c.max_depth)

\* random_word(5): two of the 26^5 words
RandomWords == { <<"q", "x", "k", "z", "w">>, <<"b", "v", "y", "h", "j">> }

\* the random_suffix argument of a variant
Suffixes(c) == IF c.enable_random_suffix THEN RandomWords ELSE { <<>> }

\* chorus names its output with random_word(5) whatever the configuration says
ChorusSuffixes(c) == RandomWords

\* the tag each family passes to generate_output_filename
EffectTag(fam) ==
    CASE fam = "pauses"      -> "addpauses"
      [] fam = "timestretch" -> "timestretch"
      [] fam = "pitchshift"  -> "pitchshift"
      [] fam = "reverb"      -> "reverb_filters"
      [] fam = "chorus"      -> "gain_chorus"
      [] fam = "noise"       -> "noise"

\* the external transformation each family calls
EffectFn(fam) ==
    CASE fam = "pauses"      -> "calculate_time_distance"
      [] fam = "timestretch" -> "apply_time_stretch"
      [] fam = "pitchshift"  -> "apply_pitch_shift"
      [] fam = "reverb"      -> "apply_reverb_and_filters"
      [] fam = "chorus"      -> "apply_gain_and_chorus"
      [] fam = "noise"       -> "apply_noise"

\* what an external transformation can do: return the annotation path, return
\* nothing, raise
Outcomes == {"ok", "none", "raise"}

\* ------------------------------------------------------------------ state
VARIABLES
    config,            \* the EffectConfig of the family being processed
    pc,                \* position inside process_effect
    i,                 \* slot index of the sampling loop
    attempts,          \* attempts of the current slot
    cand,              \* stretch_factor / semitones / room_scale / intensity
    generated,         \* generated_factors / _semitones / _room_scales / _intensities
    depth, gain, depth_attempts, gain_attempts,
    generated_depths, generated_gains,
    todo,              \* values the dispatch loop has still to visit
    calls,             \* external transformation calls made, in order
    new_ann_files,     \* the list process_effect returns
    log,               \* kinds of messages logged
    \* --- the merge branch of process_effect and merge_audios
    input_directory,   \* names of the files of the input directory
    standardized_audio,\* basename of the file being processed
    ann_files,         \* annotation files on disk: path -> lines
    target_audio_files,\* the candidate pool
    audios4merge,      \* the files selected for the merge, in selection order
    \* --- main: the naming scheme and the effect-keyword scan
    directory,         \* names of the files of the scanned directory
    produced,          \* names the pipeline wrote there
    listing,           \* grab_audios(input_directory) as main last read it
    audio_files,       \* the files main selects for augmentation
    \* --- process_files
    num_workers,
    futures,           \* per family: "none", "queued", "running" or "done"
    results,           \* per family: the list its unit returned
    collected,         \* families whose result has been collected, in order
    all_ann_files,
    converted,         \* annotation files handed to ann_to_midi so far
    overtaken,         \* a unit has completed before one submitted earlier
    unit_exit,         \* per family: how its process_effect call ended
    ann_on_disk,       \* annotation files the units wrote that are still there
    exec_pc,
    \* --- main: annotation generation, the loop over the pairs, deletion
    main_pc,
    output_is_input,   \* output_directory is args.input_directory
    audio_order,       \* audio_files after the filter, in listing order
    audio_files_described, \* the files gen_ann has returned for
    pair_idx,          \* index of the pair being processed
    pair_pc,           \* position inside the processing of that pair
    processed_count,
    temp_reads,        \* reads of temp annotations: who read which path
    main_log,
    \* --- ann_to_midi and midi_to_ann
    ann_text,          \* the lines of the annotation file, as characters
    line_idx,          \* lines ann_to_midi has been through
    notes,             \* instrument.notes
    warnings,          \* numbers of the lines skipped with a warning
    codec_pc,
    ann_out            \* the lines midi_to_ann writes for the saved notes

mergeVars ==
    << input_directory, standardized_audio, ann_files, target_audio_files,
       audios4merge >>

scanVars == << directory, produced, listing, audio_files >>

execVars ==
    << num_workers, futures, results, collected, all_ann_files, converted, overtaken,
       unit_exit, ann_on_disk, exec_pc >>

effectVars ==
    << config, pc, i, attempts, cand, generated, depth, gain, depth_attempts,
       gain_attempts, generated_depths, generated_gains, todo, calls,
       new_ann_files, log >>

mainVars ==
    << main_pc, output_is_input, audio_order, audio_files_described, pair_idx,
       pair_pc, processed_count, temp_reads, main_log >>

codecVars == << ann_text, line_idx, notes, warnings, codec_pc, ann_out >>

vars == << effectVars, mergeVars, scanVars, execVars, mainVars, codecVars >>

\* ----------------------------------------------------- parameter sampling
\* WhileCond as it would be if the loop allowed one attempt more
WhileCondOneMore(v, ident, gen, att) == (v = ident \/ v \in gen) /\ att <= max_attempts

\* the rejection test of every sampling loop
WhileCond(v, ident, gen, att) == (v = ident \/ v \in gen) /\ att < max_attempts

\* SlotValues as it would be without the first-slot fallback
SlotValuesNoFallback(slot, exhausted, v, draws) == IF exhausted THEN {} ELSE {v}

\* what a slot adds once its loops are over: nothing when it is skipped, any fresh
\* draw when the first slot falls back, else the candidate the loop ended on
SlotValues(slot, exhausted, v, draws) ==
    IF exhausted
    THEN IF slot > 0 THEN {} ELSE draws
    ELSE {v}

\* np.linspace(lo, hi, num) for bounds lo/unit, hi/unit: point k as a pair
\* <<numerator, denominator>>
LinspacePoint(lo, hi, unit, num, k) ==
    IF num = 1
    THEN <<lo, unit>>
    ELSE <<lo * (num - 1) + k * (hi - lo), unit * (num - 1)>>

\* the grid value at point <<numerator, denominator>>: np.linspace with
\* dtype=float, np.linspace with dtype=int, np.logspace
GridValue(c, p) ==
    CASE c.effect_type = "timestretch" -> Lin(p[1], p[2])
      [] c.effect_type = "pitchshift"  -> Lin(Trunc(p[1], p[2]), 1)
      [] c.effect_type = "noise"       -> Pow10(p[1], p[2])

\* set(list(np.linspace(min, max, variations + 1, dtype=...))) and the logspace
\* of the noise family
GridSet(c) ==
    LET num == c.variations + 1
        pts == {LinspacePoint(c.min, c.max, Unit(c.effect_type), num, k) : k \in 0..(num - 1)}
    IN  {GridValue(c, p) : p \in pts}

\* Remove as it would be if the identity value were left in the grid
RemoveNothing(s, ident) == s

\* try: s.remove(ident) except: pass
Remove(s, ident) == s \ {ident}

\* while len(s) > n: s.pop()  -- set.pop() removes an arbitrary element
RECURSIVE PopWhile(_, _)
PopWhile(s, n) ==
    IF Cardinality(s) > n
    THEN UNION {PopWhile(s \ {x}, n) : x \in s}
    ELSE {s}

\* the parameter sets grid mode can end with
GridResults(c) == PopWhile(Remove(GridSet(c), Identity(c.effect_type)), c.variations)

\* ------------------------------------------------------- process_effect
\* the configurations of one family
Configs ==
    { [ effect_type |-> fam, enabled |-> en, randomized |-> rnd, variations |-> n,
        min |-> lo, max |-> lo + w, min_depth |-> dlo, max_depth |-> dlo + dw,
        enable_random_suffix |-> sfx ] :
        fam \in ParamFamilies \cup {"pauses"}, en \in BOOLEAN, rnd \in BOOLEAN,
        n \in 0..MaxVariations, lo \in -1..11, w \in 0..MaxWidth,
        dlo \in -1..1, dw \in 0..MaxWidth, sfx \in BOOLEAN }

\* the fields a family does not read are held at one value
ValidConfig(c) ==
    /\ c.effect_type \in ParamFamilies => c.min \in LoChoices(c.effect_type)
    /\ c.effect_type = "chorus" =>
          /\ c.min \in ChorusLo /\ c.max = c.min + 1
          /\ c.min_depth \in ChorusLo /\ c.max_depth = c.min_depth + 1
    /\ c.enable_random_suffix => c.variations <= MaxSuffixVariations
    /\ c.effect_type = "pauses" => c.min = 0 /\ c.max = 0 /\ c.variations = 0
    /\ c.effect_type # "chorus" => c.min_depth = 0 /\ c.max_depth = 0
    /\ c.effect_type \notin GridFamilies => c.randomized
    /\ ~c.enabled => c.variations = 0 /\ c.max = c.min /\ c.max_depth = c.min_depth
                     /\ c.randomized /\ ~c.enable_random_suffix

\* external calls that did not return a path
Failures(cs) == Cardinality({k \in DOMAIN cs : cs[k].outcome # "ok"})

\* the outcomes explored for the next external call: at most MaxFailures calls of
\* one run fail
NextOutcomes(cs) == IF Failures(cs) < MaxFailures THEN Outcomes ELSE {"ok"}

\* the record of one external call
Call(fn, param, suffix, outcome) ==
    [fn |-> fn, param |-> param, suffix |-> suffix, outcome |-> outcome]

\* the annotation path an external transformation returns for an output file
AnnOf(tag, measure, suffix) == [effect |-> tag, measure |-> measure, suffix |-> suffix]

\* Collected as it would be if a raising variant ended the family in the outer
\* handler
CollectedUnlessRaised(files, tag, measure, suffix, outcome) ==
    CASE outcome = "ok"    -> Append(files, AnnOf(tag, measure, suffix))
      [] outcome = "none"  -> files
      [] outcome = "raise" -> << >>

\* new_ann_files after one call: appended only when a truthy path came back
Collected(files, tag, measure, suffix, outcome) ==
    IF outcome = "ok" THEN Append(files, AnnOf(tag, measure, suffix)) ELSE files

\* log after one external call
CallLog(l, outcome) == IF outcome = "raise" THEN l \cup {"variant_error"} ELSE l

\* the variables of process_effect before the sampling starts
EffectIdle ==
    /\ i = 0
    /\ attempts = 0
    /\ cand = Lin(0, 1)
    /\ generated = {}
    /\ depth = Lin(0, 1)
    /\ gain = Lin(0, 1)
    /\ depth_attempts = 0
    /\ gain_attempts = 0
    /\ generated_depths = {}
    /\ generated_gains = {}
    /\ todo = {}
    /\ calls = << >>
    /\ new_ann_files = << >>
    /\ log = {}

\* the merge variables outside a merge
MergeIdle ==
    /\ input_directory = {}
    /\ standardized_audio = << >>
    /\ ann_files = << >>
    /\ target_audio_files = {}
    /\ audios4merge = << >>

\* the scan variables outside main's scan
ScanIdle ==
    /\ directory = {}
    /\ produced = {}
    /\ listing = {}
    /\ audio_files = {}

\* the executor variables outside process_files
ExecIdle ==
    /\ num_workers = 0
    /\ futures = << >>
    /\ results = << >>
    /\ collected = << >>
    /\ all_ann_files = << >>
    /\ converted = << >>
    /\ overtaken = FALSE
    /\ unit_exit = << >>
    /\ ann_on_disk = {}
    /\ exec_pc = "idle"

\* the variables of main outside main
MainIdle ==
    /\ main_pc = "idle"
    /\ output_is_input = FALSE
    /\ audio_order = << >>
    /\ audio_files_described = << >>
    /\ pair_idx = 0
    /\ pair_pc = "idle"
    /\ processed_count = 0
    /\ temp_reads = {}
    /\ main_log = {}

\* the codec variables outside a conversion
CodecIdle ==
    /\ ann_text = << >>
    /\ line_idx = 0
    /\ notes = << >>
    /\ warnings = {}
    /\ codec_pc = "idle"
    /\ ann_out = << >>

EffectInit ==
    /\ config \in {c \in Configs : ValidConfig(c)}
    /\ pc = "start"
    /\ EffectIdle
    /\ MergeIdle
    /\ ScanIdle
    /\ ExecIdle
    /\ MainIdle
    /\ CodecIdle

\* no branch of the if/elif chain matches: the empty list is returned
Disabled ==
    /\ pc = "start"
    /\ ~config.enabled
    /\ pc' = "done"
    /\ UNCHANGED << config, i, attempts, cand, generated, depth, gain, depth_attempts,
                    gain_attempts, generated_depths, generated_gains, todo, calls,
                    new_ann_files, log >>
    /\ UNCHANGED << mergeVars, scanVars, execVars, mainVars, codecVars >>

\* the pauses branch: one call of calculate_time_distance with measure 1; an
\* exception reaches the outer handler, which returns []
Pauses ==
    /\ pc = "start"
    /\ config.enabled
    /\ config.effect_type = "pauses"
    /\ \E sfx \in Suffixes(config), out \in NextOutcomes(calls) :
        /\ calls' = Append(calls, Call("calculate_time_distance", Lin(1, 1), sfx, out))
        /\ new_ann_files' = Collected(new_ann_files, "addpauses", Lin(1, 1), sfx, out)
        /\ log' = IF out = "raise" THEN log \cup {"effect_error"} ELSE log
    /\ pc' = "done"
    /\ UNCHANGED << config, i, attempts, cand, generated, depth, gain, depth_attempts,
                    gain_attempts, generated_depths, generated_gains, todo >>
    /\ UNCHANGED << mergeVars, scanVars, execVars, mainVars, codecVars >>

\* entry of a randomized sampling loop
StartRandomized ==
    /\ pc = "start"
    /\ config.enabled
    /\ config.effect_type \in ParamFamilies
    /\ config.randomized
    /\ pc' = "loop"
    /\ i' = 0
    /\ UNCHANGED << config, attempts, cand, generated, depth, gain, depth_attempts,
                    gain_attempts, generated_depths, generated_gains, todo, calls,
                    new_ann_files, log >>
    /\ UNCHANGED << mergeVars, scanVars, execVars, mainVars, codecVars >>

\* grid mode: linspace/logspace, removal of the identity value, trimming
Grid ==
    /\ pc = "start"
    /\ config.enabled
    /\ config.effect_type \in GridFamilies
    /\ ~config.randomized
    /\ \E s \in GridResults(config) :
        /\ generated' = s
        /\ todo' = s
    /\ log' = IF /\ config.effect_type = "pitchshift"
                 /\ Cardinality(Remove(GridSet(config), Identity("pitchshift")))
                        < config.variations
              THEN log \cup {"warning_impossible"}
              ELSE log
    /\ pc' = "dispatch"
    /\ UNCHANGED << config, i, attempts, cand, depth, gain, depth_attempts,
                    gain_attempts, generated_depths, generated_gains, calls,
                    new_ann_files >>
    /\ UNCHANGED << mergeVars, scanVars, execVars, mainVars, codecVars >>

\* top of `for i in range(variations)`: the slot's locals are reset
BeginSlot ==
    /\ pc = "loop"
    /\ i < config.variations
    /\ IF config.effect_type = "chorus"
       THEN /\ depth' = Lin(0, 1)
            /\ gain' = Lin(0, 1)
            /\ depth_attempts' = 0
            /\ gain_attempts' = 0
            /\ pc' = "while_depth"
            /\ UNCHANGED << cand, attempts >>
       ELSE /\ cand' = Identity(config.effect_type)
            /\ attempts' = 0
            /\ pc' = "while"
            /\ UNCHANGED << depth, gain, depth_attempts, gain_attempts >>
    /\ UNCHANGED << config, i, generated, generated_depths, generated_gains, todo,
                    calls, new_ann_files, log >>
    /\ UNCHANGED << mergeVars, scanVars, execVars, mainVars, codecVars >>

\* one round of the rejection-sampling while loop
Draw ==
    /\ pc = "while"
    /\ WhileCond(cand, Identity(config.effect_type), generated, attempts)
    /\ cand' \in Draws(config)
    /\ attempts' = attempts + 1
    /\ UNCHANGED << config, pc, i, generated, depth, gain, depth_attempts,
                    gain_attempts, generated_depths, generated_gains, todo, calls,
                    new_ann_files, log >>
    /\ UNCHANGED << mergeVars, scanVars, execVars, mainVars, codecVars >>

\* the families whose dispatch loop follows the randomized sampling loop; the
\* pitch-shift dispatch loop sits inside the grid branch
DispatchesAfterLoop(fam) == fam \in {"timestretch", "noise"}

\* after the while loop of timestretch / pitchshift / noise: skip the slot, fall
\* back to a fresh draw, or keep the candidate; then add it
EndSlot ==
    /\ pc = "while"
    /\ config.effect_type \in GridFamilies
    /\ ~WhileCond(cand, Identity(config.effect_type), generated, attempts)
    /\ LET vals == SlotValues(i, attempts = max_attempts, cand, Draws(config))
       IN  IF vals = {}
           THEN UNCHANGED << cand, generated >>
           ELSE \E v \in vals : cand' = v /\ generated' = generated \cup {v}
    /\ log' = IF attempts = max_attempts THEN log \cup {"warning_exhausted"} ELSE log
    /\ i' = i + 1
    /\ pc' = "loop"
    /\ UNCHANGED << config, attempts, depth, gain, depth_attempts, gain_attempts,
                    generated_depths, generated_gains, todo, calls, new_ann_files >>
    /\ UNCHANGED << mergeVars, scanVars, execVars, mainVars, codecVars >>

\* reverb: the slot's room scale is added and dispatched inside the loop
EndSlotReverb ==
    /\ pc = "while"
    /\ config.effect_type = "reverb"
    /\ ~WhileCond(cand, Identity("reverb"), generated, attempts)
    /\ LET vals == SlotValues(i, attempts = max_attempts, cand, Draws(config))
       IN  IF vals = {}
           THEN UNCHANGED << cand, generated, calls, new_ann_files >>
                /\ log' = log \cup {"warning_exhausted"}
           ELSE \E v \in vals, sfx \in Suffixes(config), out \in NextOutcomes(calls) :
                /\ cand' = v
                /\ generated' = generated \cup {v}
                /\ calls' = Append(calls, Call("apply_reverb_and_filters", v, sfx, out))
                /\ new_ann_files' = Collected(new_ann_files, "reverb_filters", v, sfx, out)
                /\ log' = CallLog(IF attempts = max_attempts
                                  THEN log \cup {"warning_exhausted"} ELSE log, out)
    /\ i' = i + 1
    /\ pc' = "loop"
    /\ UNCHANGED << config, attempts, depth, gain, depth_attempts, gain_attempts,
                    generated_depths, generated_gains, todo >>
    /\ UNCHANGED << mergeVars, scanVars, execVars, mainVars, codecVars >>

\* chorus: one round of the depth loop
DrawDepth ==
    /\ pc = "while_depth"
    /\ WhileCond(depth, Lin(0, 1), generated_depths, depth_attempts)
    /\ depth' \in DepthDraws(config)
    /\ depth_attempts' = depth_attempts + 1
    /\ UNCHANGED << config, pc, i, attempts, cand, generated, gain, gain_attempts,
                    generated_depths, generated_gains, todo, calls, new_ann_files, log >>
    /\ UNCHANGED << mergeVars, scanVars, execVars, mainVars, codecVars >>

\* chorus: one round of the gain loop, entered once the depth loop is over
DrawGain ==
    /\ pc \in {"while_depth", "while_gain"}
    /\ ~WhileCond(depth, Lin(0, 1), generated_depths, depth_attempts)
    /\ WhileCond(gain, Lin(0, 1), generated_gains, gain_attempts)
    /\ gain' \in Draws(config)
    /\ gain_attempts' = gain_attempts + 1
    /\ pc' = "while_gain"
    /\ UNCHANGED << config, i, attempts, cand, generated, depth, depth_attempts,
                    generated_depths, generated_gains, todo, calls, new_ann_files, log >>
    /\ UNCHANGED << mergeVars, scanVars, execVars, mainVars, codecVars >>

\* chorus: after both loops; the slot is exhausted when either loop used all its
\* attempts, and the fallback redraws both quantities
EndSlotChorus ==
    /\ pc = "while_gain"
    /\ ~WhileCond(gain, Lin(0, 1), generated_gains, gain_attempts)
    /\ LET exhausted == depth_attempts = max_attempts \/ gain_attempts = max_attempts
           depths == SlotValues(i, exhausted, depth, DepthDraws(config))
           gains == SlotValues(i, exhausted, gain, Draws(config))
       IN  IF depths = {} \/ gains = {}
           THEN UNCHANGED << depth, gain, generated_depths, generated_gains, calls,
                             new_ann_files >>
                /\ log' = log \cup {"warning_exhausted"}
           ELSE \E d \in depths, g \in gains, sfx \in ChorusSuffixes(config),
                   out \in NextOutcomes(calls) :
                /\ depth' = d
                /\ gain' = g
                /\ generated_depths' = generated_depths \cup {d}
                /\ generated_gains' = generated_gains \cup {g}
                /\ calls' = Append(calls, [fn |-> "apply_gain_and_chorus", param |-> g,
                                           suffix |-> sfx, outcome |-> out, depth |-> d])
                /\ new_ann_files' = Collected(new_ann_files, "gain_chorus", g, sfx, out)
                /\ log' = CallLog(IF exhausted THEN log \cup {"warning_exhausted"}
                                  ELSE log, out)
    /\ i' = i + 1
    /\ pc' = "loop"
    /\ UNCHANGED << config, attempts, cand, generated, depth_attempts, gain_attempts,
                    todo >>
    /\ UNCHANGED << mergeVars, scanVars, execVars, mainVars, codecVars >>

\* the for loop over the slots is over
EndLoop ==
    /\ pc = "loop"
    /\ i >= config.variations
    /\ IF DispatchesAfterLoop(config.effect_type)
       THEN pc' = "dispatch" /\ todo' = generated
       ELSE pc' = "done" /\ UNCHANGED todo
    /\ UNCHANGED << config, i, attempts, cand, generated, depth, gain, depth_attempts,
                    gain_attempts, generated_depths, generated_gains, calls,
                    new_ann_files, log >>
    /\ UNCHANGED << mergeVars, scanVars, execVars, mainVars, codecVars >>

\* one round of `for value in generated_...`: name the output, call the external
\* transformation, keep the annotation path it returns
Dispatch ==
    /\ pc = "dispatch"
    /\ \E x \in todo, sfx \in Suffixes(config), out \in NextOutcomes(calls) :
        /\ todo' = todo \ {x}
        /\ calls' = Append(calls, Call(EffectFn(config.effect_type), x, sfx, out))
        /\ new_ann_files' =
              Collected(new_ann_files, EffectTag(config.effect_type), x, sfx, out)
        /\ log' = CallLog(log, out)
    /\ UNCHANGED << config, pc, i, attempts, cand, generated, depth, gain,
                    depth_attempts, gain_attempts, generated_depths, generated_gains >>
    /\ UNCHANGED << mergeVars, scanVars, execVars, mainVars, codecVars >>

\* return new_ann_files
Return ==
    /\ pc = "dispatch"
    /\ todo = {}
    /\ pc' = "done"
    /\ UNCHANGED << config, i, attempts, cand, generated, depth, gain, depth_attempts,
                    gain_attempts, generated_depths, generated_gains, todo, calls,
                    new_ann_files, log >>
    /\ UNCHANGED << mergeVars, scanVars, execVars, mainVars, codecVars >>

EffectNext ==
    \/ Disabled
    \/ Pauses
    \/ StartRandomized
    \/ Grid
    \/ BeginSlot
    \/ Draw
    \/ EndSlot
    \/ EndSlotReverb
    \/ DrawDepth
    \/ DrawGain
    \/ EndSlotChorus
    \/ EndLoop
    \/ Dispatch
    \/ Return


\* ============================================ naming scheme and scan of main
\* File names are sequences of one-character strings, so that `keyword in f`,
\* endswith and splitext are computed on the characters.

\* str.lower() on the letters the model's names use
LowerChar(ch) ==
    CASE ch = "A" -> "a" [] ch = "B" -> "b" [] ch = "C" -> "c" [] ch = "F" -> "f"
      [] ch = "L" -> "l" [] ch = "V" -> "v" [] ch = "W" -> "w" [] OTHER -> ch

Lower(f) == [k \in DOMAIN f |-> LowerChar(f[k])]

\* `sub in f` on strings
Contains(f, sub) ==
    \E k \in 0..(Len(f) - Len(sub)) : SubSeq(f, k + 1, k + Len(sub)) = sub

EndsWith(f, suffix) ==
    /\ Len(f) >= Len(suffix)
    /\ SubSeq(f, Len(f) - Len(suffix) + 1, Len(f)) = suffix

\* position of the last "." of a name, 0 when there is none
LastDot(f) ==
    IF \E k \in DOMAIN f : f[k] = "."
    THEN CHOOSE k \in DOMAIN f : f[k] = "." /\ \A j \in DOMAIN f : f[j] = "." => j <= k
    ELSE 0

\* os.path.splitext(f)[0] and f.rsplit(".", 1)[0]
Stem(f) == IF LastDot(f) = 0 THEN f ELSE SubSeq(f, 1, LastDot(f) - 1)

\* os.path.splitext(f)[1]
Ext(f) == IF LastDot(f) = 0 THEN << >> ELSE SubSeq(f, LastDot(f), Len(f))

AudioExtensions ==
    { <<".", "w", "a", "v">>, <<".", "f", "l", "a", "c">>, <<".", "m", "p", "3">>, <<".", "m", "4", "a">>, <<".", "a", "i", "f", "f">> }

\* grab_audios: the names whose lower-cased form ends with an audio extension
grab_audios(files) ==
    {f \in files : \E e \in AudioExtensions : EndsWith(Lower(f), e)}

DigitChars == <<"0", "1", "2", "3", "4", "5", "6", "7", "8", "9">>

RECURSIVE NatStr(_)
NatStr(n) ==
    IF n < 10 THEN <<DigitChars[n + 1]>>
    ELSE NatStr(n \div 10) \o <<DigitChars[(n % 10) + 1]>>

\* str() of an int
IntStr(k) == IF k < 0 THEN <<"-">> \o NatStr(0 - k) ELSE NatStr(k)

\* str() of a float with one decimal, given in tenths
FloatStr(t) ==
    (IF t < 0 THEN <<"-">> ELSE << >>)
        \o NatStr(Abs(t) \div 10) \o <<".">> \o NatStr(Abs(t) % 10)

\* the text f"{measure}" of a parameter value: stretch factors and intensities
\* are floats, the other measures ints
MeasureStr(fam, v) ==
    IF fam \in {"timestretch", "noise"}
    THEN FloatStr((v.n * 10) \div v.d)
    ELSE IntStr(v.n)

\* the characters of an effect tag
TagChars(tag) ==
    CASE tag = "addpauses"      -> <<"a", "d", "d", "p", "a", "u", "s", "e", "s">>
      [] tag = "timestretch"    -> <<"t", "i", "m", "e", "s", "t", "r", "e", "t", "c", "h">>
      [] tag = "pitchshift"     -> <<"p", "i", "t", "c", "h", "s", "h", "i", "f", "t">>
      [] tag = "reverb_filters" -> <<"r", "e", "v", "e", "r", "b", "_", "f", "i", "l", "t", "e", "r", "s">>
      [] tag = "gain_chorus"    -> <<"g", "a", "i", "n", "_", "c", "h", "o", "r", "u", "s">>
      [] tag = "noise"          -> <<"n", "o", "i", "s", "e">>

\* generate_output_filename(base_name, effect_name, measure, random_suffix,
\* extension), measure being the text of f"{measure}"
generate_output_filename(base_name, effect_name, measure, random_suffix, extension) ==
    IF random_suffix = << >>
    THEN base_name \o <<"_">> \o effect_name \o <<"_">> \o measure \o extension
    ELSE base_name \o <<"_">> \o effect_name \o <<"_">> \o measure \o <<"_">>
             \o random_suffix \o extension

RECURSIVE JoinUnderscore(_)
\* "_".join(names)
JoinUnderscore(names) ==
    IF Len(names) = 0 THEN << >>
    ELSE IF Len(names) = 1 THEN names[1]
    ELSE names[1] \o <<"_">> \o JoinUnderscore(Tail(names))

\* output_filename of the merge branch: the stems of the selected files and of
\* the current file, joined, plus "_merged"
MergeOutputName(selected, current) ==
    JoinUnderscore([k \in 1..(Len(selected) + 1) |->
                       Stem(Append(selected, current)[k])]) \o <<"_", "m", "e", "r", "g", "e", "d">>

\* effect_keywords as it would be without the keyword of the merge family
effect_keywords_without_merge ==
    << <<"t", "i", "m", "e", "s", "t", "r", "e", "t", "c", "h">>,
       <<"p", "i", "t", "c", "h", "s", "h", "i", "f", "t">>,
       <<"r", "e", "v", "e", "r", "b", "_", "f", "i", "l", "t", "e", "r", "s">>,
       <<"g", "a", "i", "n", "_", "c", "h", "o", "r", "u", "s">>,
       <<"a", "d", "d", "p", "a", "u", "s", "e", "s">>,
       <<"n", "o", "i", "s", "e">> >>

effect_keywords ==
    << <<"t", "i", "m", "e", "s", "t", "r", "e", "t", "c", "h">>,
       <<"p", "i", "t", "c", "h", "s", "h", "i", "f", "t">>,
       <<"r", "e", "v", "e", "r", "b", "_", "f", "i", "l", "t", "e", "r", "s">>,
       <<"g", "a", "i", "n", "_", "c", "h", "o", "r", "u", "s">>,
       <<"a", "d", "d", "p", "a", "u", "s", "e", "s">>,
       <<"m", "e", "r", "g", "e">>,
       <<"n", "o", "i", "s", "e">> >>

\* the filter of main: the audio files that carry no effect keyword
Unprocessed(files) ==
    {f \in grab_audios(files) :
        ~\E k \in DOMAIN effect_keywords : Contains(f, effect_keywords[k])}

\* the candidate pool of the merge branch: the audio files whose name does not
\* contain the basename of the current file
MergePool(files, current) == {x \in grab_audios(files) : ~Contains(x, current)}

\* the sequences of k pairwise distinct elements of a set: what k rounds of
\* pop(randrange(len)) can select
RECURSIVE Selections(_, _)
Selections(pool, k) ==
    IF k = 0 THEN { << >> }
    ELSE UNION { { <<x>> \o rest : rest \in Selections(pool \ {x}, k - 1) } : x \in pool }

\* the original files of the scanned directory
SourceNames ==
    { <<"a", ".", "w", "a", "v">>,
      <<"B", ".", "F", "L", "A", "C">>,
      <<"a", ".", "m", "i", "d">> }

\* the measures a family can name an output with
ScanMeasures(fam) ==
    CASE fam = "pauses" -> {Lin(1, 1)}
      [] fam \in {"timestretch", "noise"} -> RandomUniformRound1(9, 9)
      [] OTHER -> RandomRandint(-1, -1)

\* the random_suffix arguments of the outputs: none, or one word of random_word(5)
ScanSuffixes == { << >>, <<"q", "x", "k", "z", "w">> }

ScanInit ==
    /\ directory = SourceNames
    /\ produced = {}
    /\ listing = {}
    /\ audio_files = {}
    /\ config = [effect_type |-> "none"]
    /\ pc = "idle"
    /\ EffectIdle
    /\ MergeIdle
    /\ ExecIdle
    /\ MainIdle
    /\ CodecIdle

\* main lists the directory and drops the names that carry an effect keyword
Scan ==
    /\ listing' = grab_audios(directory)
    /\ audio_files' = Unprocessed(directory)
    /\ UNCHANGED << directory, produced >>
    /\ UNCHANGED << effectVars, mergeVars, execVars, mainVars, codecVars >>

\* an effect family writes one variant of a selected file into the directory
WriteVariant ==
    /\ Cardinality(produced) < MaxOutputs
    /\ \E src \in audio_files, fam \in ParamFamilies \cup {"pauses"},
          sfx \in ScanSuffixes :
        \E v \in ScanMeasures(fam) :
            LET name == generate_output_filename(Stem(src), TagChars(EffectTag(fam)),
                                                 MeasureStr(fam, v), sfx, Ext(src))
            IN  /\ name \notin directory
                /\ directory' = directory \cup {name}
                /\ produced' = produced \cup {name}
    /\ UNCHANGED << listing, audio_files >>
    /\ UNCHANGED << effectVars, mergeVars, execVars, mainVars, codecVars >>

\* the merge family writes the merged audio of a selected file and of one or two
\* files of its candidate pool
WriteMerge ==
    /\ Cardinality(produced) < MaxOutputs
    /\ \E current \in audio_files, k \in 1..2 :
        \E sel \in Selections(MergePool(directory, current), k) :
            LET name == MergeOutputName(sel, current) \o <<".", "w", "a", "v">>
            IN  /\ name \notin directory
                /\ directory' = directory \cup {name}
                /\ produced' = produced \cup {name}
    /\ UNCHANGED << listing, audio_files >>
    /\ UNCHANGED << effectVars, mergeVars, execVars, mainVars, codecVars >>

ScanNext ==
    \/ Scan
    \/ WriteVariant
    \/ WriteMerge

\* ======================================= merge branch and merge_audios
\* the audio files the input directories of the model are made of; the second
\* name contains the first
MergeNames ==
    { <<"a", ".", "w", "a", "v">>,
      <<"b", "a", ".", "w", "a", "v">>,
      <<"b", ".", "w", "a", "v">>,
      <<"c", ".", "f", "l", "a", "c">> }

\* the note events midi_to_ann wrote for a file, one line each:
\* <<onset, offset, pitch, velocity>>
TempText(name) ==
    CASE name = <<"a", ".", "w", "a", "v">>      -> << <<0, 1, 60, 80>>, <<1, 2, 62, 80>> >>
      [] name = <<"b", "a", ".", "w", "a", "v">> -> << <<0, 2, 64, 70>> >>
      [] name = <<"b", ".", "w", "a", "v">>      -> << <<1, 3, 65, 90>> >>
      [] OTHER                                   -> << <<0, 1, 67, 60>>, <<2, 3, 67, 60>> >>

\* <output_directory>/<stem>_temp.ann
TempAnnPath(name) == Stem(name) \o <<"_", "t", "e", "m", "p", ".", "a", "n", "n">>

\* MergeAnnPaths as it would be with the current file's annotation read first
MergeAnnPathsCurrentFirst(selected, temp_ann) ==
    [k \in 1..(Len(selected) + 1) |->
        IF k = 1 THEN temp_ann ELSE TempAnnPath(selected[k - 1])]

\* the annotation paths merge_audios reads: one per selected file, then the
\* current file's
MergeAnnPaths(selected, temp_ann) ==
    [k \in 1..(Len(selected) + 1) |->
        IF k <= Len(selected) THEN TempAnnPath(selected[k]) ELSE temp_ann]

RECURSIVE ReadAll(_, _)
\* ann_merged: the texts of the paths, appended in order
ReadAll(paths, files) ==
    IF Len(paths) = 0 THEN << >>
    ELSE files[paths[1]] \o ReadAll(Tail(paths), files)

\* what merge_audios can do: fail while loading or reading, write the annotation
\* and then fail in sf.write, or return the annotation path
MergeOutcomes == {"raise", "ann_written", "ok"}

MergeConfigs ==
    { [effect_type |-> "merge", enabled |-> en, merge_num |-> k,
       enable_random_suffix |-> FALSE] :
        en \in BOOLEAN, k \in 1..MaxMergeNum }

MergeInit ==
    /\ config \in MergeConfigs
    /\ pc = "start"
    /\ EffectIdle
    /\ standardized_audio \in { <<"a", ".", "w", "a", "v">>, <<"b", ".", "w", "a", "v">> }
    /\ input_directory \in {d \in SUBSET MergeNames : standardized_audio \in d}
    /\ \E present \in SUBSET (input_directory \ {standardized_audio}) :
          ann_files = [path \in {TempAnnPath(x) : x \in present \cup {standardized_audio}}
                          |-> TempText(CHOOSE x \in input_directory : TempAnnPath(x) = path)]
    /\ target_audio_files = {}
    /\ audios4merge = << >>
    /\ ScanIdle
    /\ ExecIdle
    /\ MainIdle
    /\ CodecIdle

\* the merge branch up to the test of the pool size
MergeStart ==
    /\ pc = "start"
    /\ config.enabled
    /\ config.effect_type = "merge"
    /\ target_audio_files' = MergePool(input_directory, standardized_audio)
    /\ IF Cardinality(target_audio_files') >= config.merge_num
       THEN pc' = "select" /\ UNCHANGED log
       ELSE pc' = "done" /\ log' = log \cup {"merge_impossible"}
    /\ UNCHANGED << config, i, attempts, cand, generated, depth, gain, depth_attempts,
                    gain_attempts, generated_depths, generated_gains, todo, calls,
                    new_ann_files >>
    /\ UNCHANGED << input_directory, standardized_audio, ann_files, audios4merge >>
    /\ UNCHANGED << scanVars, execVars, mainVars, codecVars >>

\* one round of the selection loop: pop a random element of the pool
Select ==
    /\ pc = "select"
    /\ Len(audios4merge) < config.merge_num
    /\ \E x \in target_audio_files :
        /\ audios4merge' = Append(audios4merge, x)
        /\ target_audio_files' = target_audio_files \ {x}
    /\ UNCHANGED effectVars
    /\ UNCHANGED << input_directory, standardized_audio, ann_files >>
    /\ UNCHANGED << scanVars, execVars, mainVars, codecVars >>

\* the call of merge_audios and the handling of its result
MergeAudios ==
    /\ pc = "select"
    /\ Len(audios4merge) >= config.merge_num
    /\ LET temp_ann == TempAnnPath(standardized_audio)
           paths == MergeAnnPaths(audios4merge, temp_ann)
           out_ann == MergeOutputName(audios4merge, standardized_audio)
                         \o <<".", "a", "n", "n">>
           readable == \A k \in DOMAIN paths : paths[k] \in DOMAIN ann_files
       IN  \E out \in MergeOutcomes :
            /\ out # "raise" => readable
            /\ calls' = Append(calls, Call("merge_audios", audios4merge, << >>, out))
            /\ ann_files' =
                 IF out = "raise" THEN ann_files
                 ELSE [path \in DOMAIN ann_files \cup {out_ann} |->
                          IF path = out_ann THEN ReadAll(paths, ann_files)
                          ELSE ann_files[path]]
            /\ new_ann_files' =
                 IF out = "ok" THEN Append(new_ann_files, out_ann) ELSE new_ann_files
            /\ log' = IF out = "ok" THEN log ELSE log \cup {"merge_error"}
    /\ pc' = "done"
    /\ UNCHANGED << config, i, attempts, cand, generated, depth, gain, depth_attempts,
                    gain_attempts, generated_depths, generated_gains, todo >>
    /\ UNCHANGED << input_directory, standardized_audio, target_audio_files,
                    audios4merge >>
    /\ UNCHANGED << scanVars, execVars, mainVars, codecVars >>

MergeNext ==
    \/ Disabled
    \/ MergeStart
    \/ Select
    \/ MergeAudios

\* ========================================================= process_files
effect_types ==
    << "pauses", "timestretch", "pitchshift", "reverb", "chorus", "merge", "noise" >>

\* the lists a family's process_effect can return: nothing, or the annotation
\* files of its variants (one for pauses and merge, two for the other families)
UnitResults(k) ==
    { << >>,
      IF effect_types[k] \in {"pauses", "merge"}
      THEN << [effect |-> effect_types[k], n |-> 1] >>
      ELSE << [effect |-> effect_types[k], n |-> 1],
              [effect |-> effect_types[k], n |-> 2] >> }

\* whether the body of the next unit raises outside the per-variant handlers:
\* at most MaxFailures units of one invocation do
UnitRaises(exits) ==
    IF Cardinality({k \in DOMAIN exits : exits[k] # "return" /\ exits[k] # "pending"})
          < MaxFailures
    THEN BOOLEAN
    ELSE {FALSE}

\* UnitExit as it would be without the outer try/except of process_effect
UnitExitUncaught(raised) == IF raised THEN "escaped" ELSE "return"

\* how process_effect ends: `return new_ann_files`, or the outer
\* `except Exception` when the body raised
UnitExit(raised) == IF raised THEN "caught" ELSE "return"

\* what process_effect hands back: new_ann_files, or [] from the outer handler
UnitValue(files, exit) == IF exit = "return" THEN files ELSE << >>

\* the annotation files the variants of a unit wrote before it ended
Written(files) == {files[n] : n \in DOMAIN files}

\* the annotation files left after one round of the conversion loop:
\* delete_file follows ann_to_midi inside the try, so a raise skips it
AfterConversion(disk, file, outcome) ==
    IF outcome = "ok" THEN disk \ {file} ELSE disk

\* Collectable as it would be if the results were taken as the units complete
CollectableAsCompleted(futs, coll) ==
    {k \in DOMAIN futs : futs[k] = "done" /\ \A j \in DOMAIN coll : coll[j] # k}

\* the future whose result() the collection loop can take next: the next one
\* in submission order, once it is done
Collectable(futs, coll) ==
    IF Len(coll) < Len(futs) /\ futs[Len(coll) + 1] = "done"
    THEN {Len(coll) + 1}
    ELSE {}

ExecInit ==
    /\ num_workers \in 1..MaxWorkers
    /\ futures = [k \in DOMAIN effect_types |-> "none"]
    /\ results = [k \in DOMAIN effect_types |-> << >>]
    /\ collected = << >>
    /\ all_ann_files = << >>
    /\ converted = << >>
    /\ overtaken = FALSE
    /\ unit_exit = [k \in DOMAIN effect_types |-> "pending"]
    /\ ann_on_disk = {}
    /\ exec_pc = "run"
    /\ config = [effect_type |-> "none"]
    /\ pc = "idle"
    /\ EffectIdle
    /\ MergeIdle
    /\ ScanIdle
    /\ MainIdle
    /\ CodecIdle

\* executor.submit(process_effect, ...) for the next family
Submit ==
    /\ exec_pc = "run"
    /\ num_workers > 1
    /\ \E k \in DOMAIN futures :
        /\ futures[k] = "none"
        /\ \A j \in 1..(k - 1) : futures[j] # "none"
        /\ futures' = [futures EXCEPT ![k] = "queued"]
    /\ UNCHANGED << num_workers, results, collected, all_ann_files, converted,
                    overtaken, unit_exit, ann_on_disk, exec_pc >>
    /\ UNCHANGED << effectVars, mergeVars, scanVars, mainVars, codecVars >>

\* a free worker takes the oldest queued unit
StartUnit ==
    /\ Cardinality({k \in DOMAIN futures : futures[k] = "running"}) < num_workers
    /\ \E k \in DOMAIN futures :
        /\ futures[k] = "queued"
        /\ \A j \in 1..(k - 1) : futures[j] # "queued"
        /\ futures' = [futures EXCEPT ![k] = "running"]
    /\ UNCHANGED << num_workers, results, collected, all_ann_files, converted,
                    overtaken, unit_exit, ann_on_disk, exec_pc >>
    /\ UNCHANGED << effectVars, mergeVars, scanVars, mainVars, codecVars >>

\* a running unit returns its list
FinishUnit ==
    /\ \E k \in DOMAIN futures :
        /\ futures[k] = "running"
        /\ futures' = [futures EXCEPT ![k] = "done"]
        /\ \E r \in UnitResults(k), raised \in UnitRaises(unit_exit) :
            /\ unit_exit' = [unit_exit EXCEPT ![k] = UnitExit(raised)]
            /\ results' = [results EXCEPT ![k] = UnitValue(r, UnitExit(raised))]
            /\ ann_on_disk' = ann_on_disk \cup Written(r)
        /\ overtaken' = (overtaken \/ \E j \in 1..(k - 1) : futures[j] = "running")
    /\ UNCHANGED << num_workers, collected, all_ann_files, converted, exec_pc >>
    /\ UNCHANGED << effectVars, mergeVars, scanVars, mainVars, codecVars >>

\* one round of `for future in futures`: result() of the next future, extend
Collect ==
    /\ exec_pc = "run"
    /\ num_workers > 1
    /\ \A k \in DOMAIN futures : futures[k] # "none"
    /\ \E k \in Collectable(futures, collected) :
        IF unit_exit[k] = "escaped"
        THEN /\ exec_pc' = "raised"
             /\ UNCHANGED << collected, all_ann_files >>
        ELSE /\ collected' = Append(collected, k)
             /\ all_ann_files' = all_ann_files \o results[k]
             /\ UNCHANGED exec_pc
    /\ UNCHANGED << num_workers, futures, results, converted, overtaken, unit_exit,
                    ann_on_disk >>
    /\ UNCHANGED << effectVars, mergeVars, scanVars, mainVars, codecVars >>

\* sequential mode: process_effect of the next family, extend
RunSequential ==
    /\ exec_pc = "run"
    /\ num_workers <= 1
    /\ Len(collected) < Len(effect_types)
    /\ LET k == Len(collected) + 1
       IN  \E r \in UnitResults(k), raised \in UnitRaises(unit_exit) :
            /\ unit_exit' = [unit_exit EXCEPT ![k] = UnitExit(raised)]
            /\ ann_on_disk' = ann_on_disk \cup Written(r)
            /\ IF UnitExit(raised) = "escaped"
               THEN /\ exec_pc' = "raised"
                    /\ UNCHANGED << results, collected, all_ann_files >>
               ELSE /\ results' = [results EXCEPT ![k] = UnitValue(r, UnitExit(raised))]
                    /\ collected' = Append(collected, k)
                    /\ all_ann_files' =
                          all_ann_files \o UnitValue(r, UnitExit(raised))
                    /\ UNCHANGED exec_pc
    /\ UNCHANGED << num_workers, futures, converted, overtaken >>
    /\ UNCHANGED << effectVars, mergeVars, scanVars, mainVars, codecVars >>

\* one round of the conversion loop: ann_to_midi, then delete_file; an exception
\* of ann_to_midi is logged and the file is left
Convert ==
    /\ exec_pc = "run"
    /\ Len(collected) = Len(effect_types)
    /\ Len(converted) < Len(all_ann_files)
    /\ \E out \in NextOutcomes(converted) \ {"none"} :
        /\ converted' = Append(converted, [file |-> all_ann_files[Len(converted) + 1],
                                           outcome |-> out])
        /\ ann_on_disk' =
              AfterConversion(ann_on_disk, all_ann_files[Len(converted) + 1], out)
    /\ UNCHANGED << num_workers, futures, results, collected, all_ann_files, overtaken,
                    unit_exit, exec_pc >>
    /\ UNCHANGED << effectVars, mergeVars, scanVars, mainVars, codecVars >>

\* process_files returns
Finish ==
    /\ exec_pc = "run"
    /\ Len(collected) = Len(effect_types)
    /\ Len(converted) = Len(all_ann_files)
    /\ exec_pc' = "done"
    /\ UNCHANGED << num_workers, futures, results, collected, all_ann_files, converted,
                    overtaken, unit_exit, ann_on_disk >>
    /\ UNCHANGED << effectVars, mergeVars, scanVars, mainVars, codecVars >>

ExecNext ==
    \/ Submit
    \/ StartUnit
    \/ FinishUnit
    \/ Collect
    \/ RunSequential
    \/ Convert
    \/ Finish

\* ============================================ ann_to_midi and midi_to_ann
\* An annotation file is a sequence of lines, a line a sequence of
\* one-character strings that ends with the newline.  The MIDI file that
\* pretty_midi writes and reads back is the list of the notes handed to it.
WhitespaceChars == {" ", "\t", "\n", "\r"}

RECURSIVE LStrip(_)
LStrip(s) == IF Len(s) > 0 /\ s[1] \in WhitespaceChars THEN LStrip(Tail(s)) ELSE s

RECURSIVE RStrip(_)
RStrip(s) ==
    IF Len(s) > 0 /\ s[Len(s)] \in WhitespaceChars
    THEN RStrip(SubSeq(s, 1, Len(s) - 1))
    ELSE s

\* str.strip(): leading and trailing whitespace removed
Strip(s) == RStrip(LStrip(s))

RECURSIVE Split(_, _)
\* str.split(sep): the pieces between the separators, empty pieces included
Split(s, sep) ==
    IF \E k \in DOMAIN s : s[k] = sep
    THEN LET k == CHOOSE k \in DOMAIN s : s[k] = sep /\ \A j \in 1..(k - 1) : s[j] # sep
         IN  << SubSeq(s, 1, k - 1) >> \o Split(SubSeq(s, k + 1, Len(s)), sep)
    ELSE << s >>

IsDigit(ch) == \E k \in DOMAIN DigitChars : DigitChars[k] = ch

DigitValue(ch) == (CHOOSE k \in DOMAIN DigitChars : DigitChars[k] = ch) - 1

AllDigits(s) == \A k \in DOMAIN s : IsDigit(s[k])

RECURSIVE NatVal(_)
\* the number a run of digits denotes
NatVal(s) ==
    IF Len(s) = 0 THEN 0
    ELSE NatVal(SubSeq(s, 1, Len(s) - 1)) * 10 + DigitValue(s[Len(s)])

\* a numeric text without its sign
Unsigned(t) == IF Len(t) > 0 /\ t[1] \in {"-", "+"} THEN Tail(t) ELSE t

\* the sign of a numeric text
Sign(t) == IF Len(t) > 0 /\ t[1] = "-" THEN -1 ELSE 1

\* int(text): surrounding whitespace, an optional sign, digits; ok = FALSE is
\* the ValueError
ParseInt(text) ==
    LET t == Strip(text)
        body == Unsigned(t)
    IN  IF Len(body) > 0 /\ AllDigits(body)
        THEN [ok |-> TRUE, value |-> Sign(t) * NatVal(body)]
        ELSE [ok |-> FALSE, value |-> 0]

\* float(text) on decimal notation: surrounding whitespace, an optional sign,
\* digits with at most one point and at least one digit; ok = FALSE is the
\* ValueError
ParseFloat(text) ==
    LET t == Strip(text)
        parts == Split(Unsigned(t), ".")
        whole == parts[1]
        frac == IF Len(parts) = 2 THEN parts[2] ELSE << >>
    IN  IF /\ Len(parts) <= 2
           /\ AllDigits(whole) /\ AllDigits(frac)
           /\ Len(whole) + Len(frac) > 0
        THEN [ok |-> TRUE,
              value |-> Lin(Sign(t) * (NatVal(whole) * Pow(10, Len(frac)) + NatVal(frac)),
                            Pow(10, Len(frac)))]
        ELSE [ok |-> FALSE, value |-> Lin(0, 1)]

\* Note as it would be with a fixed velocity instead of the annotation's
NoteDefaultVelocity(velocity, pitch, start, end) ==
    [velocity |-> 100, pitch |-> pitch, start |-> start, end |-> end]

\* pretty_midi.Note(velocity=, pitch=, start=, end=)
Note(velocity, pitch, start, end) ==
    [velocity |-> velocity, pitch |-> pitch, start |-> start, end |-> end]

\* the body of the per-line try: the note of the line, or ok = FALSE when the
\* line is skipped (field count other than 4, or a ValueError of float()/int())
ParseLine(line) ==
    LET parts == Split(Strip(line), "\t")
    IN  IF Len(parts) # 4
        THEN [ok |-> FALSE, note |-> Note(0, 0, Lin(0, 1), Lin(0, 1))]
        ELSE LET onset == ParseFloat(parts[1])
                 offset == ParseFloat(parts[2])
                 pitch == ParseInt(parts[3])
                 velocity == ParseInt(parts[4])
             IN  [ok |-> onset.ok /\ offset.ok /\ pitch.ok /\ velocity.ok,
                  note |-> Note(velocity.value, pitch.value, onset.value, offset.value)]

RECURSIVE PadZeros(_, _)
PadZeros(s, width) == IF Len(s) >= width THEN s ELSE PadZeros(<<"0">> \o s, width)

\* f"{x:.6f}" of a value that is not negative
FormatF6(v) ==
    LET micro == (v.n * 1000000 + v.d \div 2) \div v.d
    IN  NatStr(micro \div 1000000) \o <<".">> \o PadZeros(NatStr(micro % 1000000), 6)

\* the line midi_to_ann writes for a note
FormatNote(n) ==
    FormatF6(n.start) \o <<"\t">> \o FormatF6(n.end) \o <<"\t">> \o IntStr(n.pitch)
        \o <<"\t">> \o IntStr(n.velocity) \o <<"\n">>

RECURSIVE JoinTab(_)
JoinTab(fields) ==
    IF Len(fields) = 0 THEN << >>
    ELSE IF Len(fields) = 1 THEN fields[1]
    ELSE fields[1] \o <<"\t">> \o JoinTab(Tail(fields))

\* a line of an annotation file with the given fields
Line(fields) == JoinTab(fields) \o <<"\n">>

\* the lines the annotation files are made of: two well-formed ones, then lines
\* with three and five fields, a field that is no number, a pitch that is no
\* integer, an empty line, a line that ends with a tab, an empty last field
AnnLines ==
    LET f05 == <<"0", ".", "5">>
        f15 == <<"1", ".", "5">>
        f60 == <<"6", "0">>
        f80 == <<"8", "0">>
    IN  { Line(<< f05, f15, f60, f80 >>),
          Line(<< <<"1">>, <<"2">>, <<"7">>, <<"9">> >>),
          Line(<< f05, f15, f60 >>),
          Line(<< f05, f15, f60, f80, <<"1">> >>),
          Line(<< <<"x">>, f15, f60, f80 >>),
          Line(<< f05, f15, <<"6", ".", "5">>, f80 >>),
          Line(<< >>),
          Line(<< f05, f15, f60, f80, << >> >>),
          Line(<< f05, f15, f60, << >> >>) }

\* the annotation files of up to MaxLines lines
RECURSIVE AnnTexts(_)
AnnTexts(n) ==
    IF n = 0 THEN { << >> }
    ELSE AnnTexts(n - 1) \cup
         { Append(t, l) : t \in {u \in AnnTexts(n - 1) : Len(u) = n - 1}, l \in AnnLines }

CodecInit ==
    /\ ann_text \in AnnTexts(MaxLines)
    /\ line_idx = 0
    /\ notes = << >>
    /\ warnings = {}
    /\ codec_pc = "lines"
    /\ ann_out = << >>
    /\ config = [effect_type |-> "none"]
    /\ pc = "idle"
    /\ EffectIdle
    /\ MergeIdle
    /\ ScanIdle
    /\ ExecIdle
    /\ MainIdle

\* one round of `for i, line in enumerate(lines)`: the note is appended, or the
\* line is skipped with a warning
ConvertLine ==
    /\ codec_pc = "lines"
    /\ line_idx < Len(ann_text)
    /\ LET r == ParseLine(ann_text[line_idx + 1])
       IN  IF r.ok
           THEN notes' = Append(notes, r.note) /\ UNCHANGED warnings
           ELSE warnings' = warnings \cup {line_idx + 1} /\ UNCHANGED notes
    /\ line_idx' = line_idx + 1
    /\ UNCHANGED << ann_text, codec_pc, ann_out >>
    /\ UNCHANGED << effectVars, mergeVars, scanVars, execVars, mainVars >>

\* midi.instruments.append(instrument); midi.write(midi_file); return
WriteMidi ==
    /\ codec_pc = "lines"
    /\ line_idx = Len(ann_text)
    /\ codec_pc' = "written"
    /\ UNCHANGED << ann_text, line_idx, notes, warnings, ann_out >>
    /\ UNCHANGED << effectVars, mergeVars, scanVars, execVars, mainVars >>

\* midi_to_ann of the file just written: one line per note, in order
MidiToAnn ==
    /\ codec_pc = "written"
    /\ ann_out' = [k \in DOMAIN notes |-> FormatNote(notes[k])]
    /\ codec_pc' = "decoded"
    /\ UNCHANGED << ann_text, line_idx, notes, warnings >>
    /\ UNCHANGED << effectVars, mergeVars, scanVars, execVars, mainVars >>

CodecNext ==
    \/ ConvertLine
    \/ WriteMidi
    \/ MidiToAnn

\* =================================================================== main
\* The run of main over the audio/MIDI pairs of the input directory: the
\* scan, the generation of the temp annotations, the processing of each pair
\* (effect families, then the merge family), the summary and the deletion of
\* the temp annotations.  The families of a pair run in family order.
MainNames ==
    { <<"a", ".", "w", "a", "v">>,
      <<"a", ".", "m", "i", "d">>,
      <<"b", ".", "w", "a", "v">>,
      <<"b", ".", "m", "i", "d">>,
      generate_output_filename(<<"b">>, TagChars("addpauses"), <<"1">>, << >>,
                               <<".", "w", "a", "v">>) }

\* os.path.splitext(audio)[0] + ".mid"
MatchingMidi(audio) == Stem(audio) \o <<".", "m", "i", "d">>

\* the file system with one more file
WithFile(files, path, text) ==
    [q \in DOMAIN files \cup {path} |-> IF q = path THEN text ELSE files[q]]

\* the file system without the files of a set of paths (delete_file of each)
WithoutFiles(files, paths) == [q \in DOMAIN files \ paths |-> files[q]]

\* TempAfterPair as it would be if process_files deleted the pair's temp
\* annotation when it is done with the pair
TempAfterPairDeleted(files, temp_ann) == WithoutFiles(files, {temp_ann})

\* the annotation files once process_files has returned for a pair: the temp
\* annotation is not among the files the conversion loop deletes
TempAfterPair(files, temp_ann) == files

\* the paths merge_audios opens, in order: it stops at the first missing one
OpenedPaths(paths, files) ==
    {paths[k] : k \in {j \in DOMAIN paths :
                          \A n \in 1..(j - 1) : paths[n] \in DOMAIN files}}

MainInit ==
    /\ main_pc = "scan"
    /\ input_directory \in SUBSET MainNames
    /\ output_is_input \in BOOLEAN
    /\ config \in MergeConfigs
    /\ audio_order = << >>
    /\ audio_files_described = << >>
    /\ pair_idx = 0
    /\ pair_pc = "idle"
    /\ processed_count = 0
    /\ temp_reads = {}
    /\ main_log = {}
    /\ standardized_audio = << >>
    /\ ann_files = << >>
    /\ target_audio_files = {}
    /\ audios4merge = << >>
    /\ pc = "idle"
    /\ EffectIdle
    /\ ScanIdle
    /\ ExecIdle
    /\ CodecIdle

\* the scan, the filter and the two early exits
MainScan ==
    /\ main_pc = "scan"
    /\ LET files == Unprocessed(input_directory)
           matched == {f \in files : MatchingMidi(f) \in input_directory}
       IN  IF files = {}
           THEN /\ main_pc' = "exit"
                /\ main_log' = main_log \cup {"no_unprocessed_audio"}
                /\ UNCHANGED audio_order
           ELSE IF matched = {}
           THEN /\ main_pc' = "exit"
                /\ main_log' = main_log \cup {"no_matching_pairs"}
                /\ UNCHANGED audio_order
           ELSE /\ main_pc' = "gen"
                /\ audio_order' \in Selections(files, Cardinality(files))
                /\ UNCHANGED main_log
    /\ UNCHANGED << output_is_input, audio_files_described, pair_idx, pair_pc,
                    processed_count, temp_reads >>
    /\ UNCHANGED << effectVars, mergeVars, scanVars, execVars, codecVars >>

\* one round of the annotation generation loop: gen_ann, whose midi_to_ann
\* raises FileNotFoundError when the MIDI file is missing; nothing in main
\* catches it
GenAnn ==
    /\ main_pc = "gen"
    /\ Len(audio_files_described) < Len(audio_order)
    /\ LET audio == audio_order[Len(audio_files_described) + 1]
       IN  IF MatchingMidi(audio) \in input_directory
           THEN /\ ann_files' = WithFile(ann_files, TempAnnPath(audio), TempText(audio))
                /\ audio_files_described' = Append(audio_files_described, audio)
                /\ UNCHANGED << main_pc, main_log >>
           ELSE /\ main_pc' = "crashed"
                /\ main_log' = main_log \cup {"midi_not_found"}
                /\ UNCHANGED << ann_files, audio_files_described >>
    /\ UNCHANGED << output_is_input, audio_order, pair_idx, pair_pc, processed_count,
                    temp_reads >>
    /\ UNCHANGED << input_directory, standardized_audio, target_audio_files,
                    audios4merge >>
    /\ UNCHANGED << effectVars, scanVars, execVars, codecVars >>

\* the generation loop is over
GenDone ==
    /\ main_pc = "gen"
    /\ Len(audio_files_described) = Len(audio_order)
    /\ main_pc' = "process"
    /\ UNCHANGED << output_is_input, audio_order, audio_files_described, pair_idx,
                    pair_pc, processed_count, temp_reads, main_log >>
    /\ UNCHANGED << effectVars, mergeVars, scanVars, execVars, codecVars >>

\* top of the processing loop: the next described pair, whose MIDI file exists
NextPair ==
    /\ main_pc = "process"
    /\ pair_pc = "idle"
    /\ pair_idx < Len(audio_files_described)
    /\ pair_idx' = pair_idx + 1
    /\ standardized_audio' = audio_files_described[pair_idx + 1]
    /\ audios4merge' = << >>
    /\ pair_pc' = "effects"
    /\ UNCHANGED << main_pc, output_is_input, audio_order, audio_files_described,
                    processed_count, temp_reads, main_log >>
    /\ UNCHANGED << input_directory, ann_files, target_audio_files >>
    /\ UNCHANGED << effectVars, scanVars, execVars, codecVars >>

\* the families that precede merge: they read the pair's temp annotation and
\* write their variants into the output directory (here none, or the variant
\* of the pauses family)
PairEffects ==
    /\ pair_pc = "effects"
    /\ temp_reads' = temp_reads \cup
          {[pair |-> standardized_audio, family |-> "effect",
            path |-> TempAnnPath(standardized_audio),
            found |-> TempAnnPath(standardized_audio) \in DOMAIN ann_files]}
    /\ \E written \in
            {{}, {generate_output_filename(Stem(standardized_audio),
                                           TagChars("addpauses"), <<"1">>, << >>,
                                           Ext(standardized_audio))}} :
          input_directory' =
              IF output_is_input THEN input_directory \cup written ELSE input_directory
    /\ pair_pc' = "merge"
    /\ UNCHANGED << main_pc, output_is_input, audio_order, audio_files_described,
                    pair_idx, processed_count, main_log >>
    /\ UNCHANGED << standardized_audio, ann_files, target_audio_files, audios4merge >>
    /\ UNCHANGED << effectVars, scanVars, execVars, codecVars >>

\* the merge family of the pair: pool, selection, and merge_audios reading the
\* temp annotations of the selected files and of the pair
PairMerge ==
    /\ pair_pc = "merge"
    /\ LET pool == MergePool(input_directory, standardized_audio)
       IN  IF ~config.enabled
           THEN UNCHANGED << input_directory, target_audio_files, audios4merge,
                             temp_reads, main_log >>
           ELSE IF Cardinality(pool) < config.merge_num
           THEN /\ target_audio_files' = pool
                /\ main_log' = main_log \cup {"merge_impossible"}
                /\ UNCHANGED << input_directory, audios4merge, temp_reads >>
           ELSE \E sel \in Selections(pool, config.merge_num) :
                LET paths == MergeAnnPaths(sel, TempAnnPath(standardized_audio))
                    opened == OpenedPaths(paths, ann_files)
                    readable == \A k \in DOMAIN paths : paths[k] \in DOMAIN ann_files
                IN  /\ audios4merge' = sel
                    /\ target_audio_files' = pool \ {sel[k] : k \in DOMAIN sel}
                    /\ temp_reads' = temp_reads \cup
                          {[pair |-> standardized_audio, family |-> "merge",
                            path |-> q, found |-> q \in DOMAIN ann_files] :
                              q \in opened}
                    /\ main_log' = IF readable THEN main_log
                                   ELSE main_log \cup {"merge_error"}
                    /\ input_directory' =
                          IF readable /\ output_is_input
                          THEN input_directory \cup
                                  {MergeOutputName(sel, standardized_audio)
                                      \o <<".", "w", "a", "v">>}
                          ELSE input_directory
    /\ pair_pc' = "end"
    /\ UNCHANGED << main_pc, output_is_input, audio_order, audio_files_described,
                    pair_idx, processed_count >>
    /\ UNCHANGED << standardized_audio, ann_files >>
    /\ UNCHANGED << effectVars, scanVars, execVars, codecVars >>

\* process_files returns for the pair; after the last pair the loop is over
PairEnd ==
    /\ pair_pc = "end"
    /\ processed_count' = processed_count + 1
    /\ ann_files' = TempAfterPair(ann_files, TempAnnPath(standardized_audio))
    /\ pair_pc' = "idle"
    /\ main_pc' = IF pair_idx = Len(audio_files_described) THEN "summary" ELSE main_pc
    /\ UNCHANGED << output_is_input, audio_order, audio_files_described, pair_idx,
                    temp_reads, main_log >>
    /\ UNCHANGED << input_directory, standardized_audio, target_audio_files,
                    audios4merge >>
    /\ UNCHANGED << effectVars, scanVars, execVars, codecVars >>

\* "Successfully processed {processed_count} out of {matched_count} pairs"
Summary ==
    /\ main_pc = "summary"
    /\ main_log' = main_log \cup {"summary"}
    /\ main_pc' = "delete"
    /\ UNCHANGED << output_is_input, audio_order, audio_files_described, pair_idx,
                    pair_pc, processed_count, temp_reads >>
    /\ UNCHANGED << effectVars, mergeVars, scanVars, execVars, codecVars >>

\* the deletion loop over audio_files_described
DeleteTemp ==
    /\ main_pc = "delete"
    /\ ann_files' = WithoutFiles(ann_files,
                                 {TempAnnPath(audio_files_described[k]) :
                                     k \in DOMAIN audio_files_described})
    /\ main_pc' = "done"
    /\ UNCHANGED << output_is_input, audio_order, audio_files_described, pair_idx,
                    pair_pc, processed_count, temp_reads, main_log >>
    /\ UNCHANGED << input_directory, standardized_audio, target_audio_files,
                    audios4merge >>
    /\ UNCHANGED << effectVars, scanVars, execVars, codecVars >>

MainNext ==
    \/ MainScan
    \/ GenAnn
    \/ GenDone
    \/ NextPair
    \/ PairEffects
    \/ PairMerge
    \/ PairEnd
    \/ Summary
    \/ DeleteTemp

\* =================================================== claims on SpecEffect
\* the sampling of an enabled parameterised family is over
SamplingDone ==
    /\ config.effect_type \in ParamFamilies
    /\ config.enabled
    /\ pc \in {"dispatch", "done"}

\* the parameter sets of the family: chorus keeps one per quantity
SampledSets ==
    IF config.effect_type = "chorus"
    THEN {generated_depths, generated_gains}
    ELSE {generated}

\* the values the variants of the family are dispatched with
DispatchSet == IF config.effect_type = "chorus" THEN generated_gains ELSE generated

\* C1 (as claimed): the parameter set of a family never contains the family's
\* identity value, in randomized and in grid mode, whatever the draws are.
C1_NeverIdentity ==
    config.effect_type \in ParamFamilies =>
        \A s \in SampledSets \cup {generated} : Identity(config.effect_type) \notin s

\* C2 (as claimed): after randomized sampling over a non-degenerate range the set
\* has size n or n-1, and is not empty when n >= 1 and the range holds more than
\* one valid value.
C2_SizeNOrNMinusOne ==
    (SamplingDone /\ config.randomized /\ config.effect_type # "chorus"
                  /\ config.min < config.max) =>
        /\ Cardinality(generated) \in {config.variations, config.variations - 1}
        /\ (config.variations >= 1
              /\ Cardinality(Draws(config) \ {Identity(config.effect_type)}) > 1)
           => generated # {}

\* C2 (amended): after randomized sampling over a non-degenerate range with
\* n >= 1 the set holds at least one and at most n values.
C2_SizeBetweenOneAndN ==
    (SamplingDone /\ config.randomized /\ config.variations >= 1
                  /\ config.min < config.max) =>
        \A s \in SampledSets :
            Cardinality(s) >= 1 /\ Cardinality(s) <= config.variations

\* C2 witness: three slots over {0.9, 1.0} ended with one value, two short of n
C2_Witness ==
    /\ SamplingDone
    /\ config.randomized
    /\ config.effect_type = "timestretch"
    /\ config.min < config.max
    /\ config.variations = 3
    /\ Cardinality(generated) = 1
    /\ "warning_exhausted" \in log

\* C3: in grid mode the set holds no identity value and exactly
\* min(variations, distinct grid points other than the identity value) values.
C3_GridSize ==
    (SamplingDone /\ ~config.randomized) =>
        /\ Identity(config.effect_type) \notin generated
        /\ Cardinality(generated) =
              Min(config.variations,
                  Cardinality(GridSet(config) \ {Identity(config.effect_type)}))

\* C3 witness: a grid of three or more points that held the identity value
C3_Witness ==
    /\ SamplingDone
    /\ ~config.randomized
    /\ config.variations >= 2
    /\ Identity(config.effect_type) \in GridSet(config)
    /\ Cardinality(generated) = config.variations

\* C4 (as claimed): once an enabled parameterised family has returned, its
\* external transformation has been called exactly once for each sampled value.
C4_EachValueDispatchedOnce ==
    (SamplingDone /\ pc = "done") =>
        \A v \in DispatchSet :
            Cardinality({k \in DOMAIN calls :
                            /\ calls[k].param = v
                            /\ calls[k].fn = EffectFn(config.effect_type)}) = 1

\* C6 (as claimed): with enable_random_suffix off, no output file of any family
\* is named with a random suffix.
C6_NoSuffixWhenDisabled ==
    ~config.enable_random_suffix =>
        \A k \in DOMAIN calls : calls[k].suffix = << >>

\* the annotation paths of the calls that returned one, in call order
RECURSIVE ReturnedPaths(_)
ReturnedPaths(cs) ==
    IF Len(cs) = 0
    THEN << >>
    ELSE LET c == cs[Len(cs)]
             before == ReturnedPaths(SubSeq(cs, 1, Len(cs) - 1))
         IN  IF c.outcome = "ok"
             THEN Append(before, AnnOf(EffectTag(config.effect_type), c.param, c.suffix))
             ELSE before

\* C12: when the external transformation raised for a parameter value of a
\* family, the failure is logged, every sampled value has still been dispatched
\* once the family returns, and the returned list holds the annotation file of
\* every successful variant, in call order.
C12_VariantFailureIsLocal ==
    (pc = "done" /\ config.effect_type \in ParamFamilies
                 /\ \E k \in DOMAIN calls : calls[k].outcome = "raise") =>
        /\ "variant_error" \in log
        /\ \A v \in DispatchSet : \E k \in DOMAIN calls : calls[k].param = v
        /\ new_ann_files = ReturnedPaths(calls)

\* C12 witness: a variant succeeded, the next raised, and a later one succeeded
C12_Witness ==
    /\ pc = "done"
    /\ config.effect_type \in ParamFamilies
    /\ Len(calls) = 3
    /\ calls[1].outcome = "ok"
    /\ calls[2].outcome = "raise"
    /\ calls[3].outcome = "ok"
    /\ Len(new_ann_files) = 2

\* a slot's sampling loops are over and the slot ends in this step
SlotEnds == pc \in {"while", "while_gain"} /\ pc' = "loop"

\* the candidate the slot's loops ended on is neither the identity value nor in
\* the running set, for every quantity the family samples
CandidateValid ==
    IF config.effect_type = "chorus"
    THEN /\ depth # Lin(0, 1) /\ depth \notin generated_depths
         /\ gain # Lin(0, 1) /\ gain \notin generated_gains
    ELSE cand # Identity(config.effect_type) /\ cand \notin generated

\* C17 (as claimed): a slot that ends on a candidate that is neither the
\* identity value nor already in the running set adds that candidate to the
\* set, on whichever of its 10 attempts the candidate was drawn.
C17_ValidCandidateAdded ==
    [][(SlotEnds /\ CandidateValid) =>
          IF config.effect_type = "chorus"
          THEN depth \in generated_depths' /\ gain \in generated_gains'
          ELSE cand \in generated']_vars

\* Comparison of a parameter value with the bound b/unit.  A value 10^(n/d) with
\* a non-integer exponent is compared through rational brackets of the
\* exponential, which is convex: it lies above 1 + 2x for x >= 0 and above
\* 1 + 3x for x < 0 (its tangent at 0 has slope ln 10, between 2 and 3), below
\* 1 + 9x on [0, 1] and below 1 + 9x/10 on [-1, 0] (its chords).  A comparison
\* the brackets do not decide has no value.
AtMost(v, b, unit) ==
    IF ~v.pow
    THEN v.n * unit <= b * v.d
    ELSE CASE v.n > 0 /\ v.n <= v.d /\ (v.d + 9 * v.n) * unit <= b * v.d -> TRUE
           [] v.n < 0 /\ 0 - v.n <= v.d
                  /\ (10 * v.d + 9 * v.n) * unit <= 10 * b * v.d -> TRUE
           [] v.n > 0 /\ (v.d + 2 * v.n) * unit > b * v.d -> FALSE
           [] v.n < 0 /\ (v.d + 3 * v.n) * unit > b * v.d -> FALSE

AtLeast(v, b, unit) ==
    IF ~v.pow
    THEN v.n * unit >= b * v.d
    ELSE CASE v.n > 0 /\ (v.d + 2 * v.n) * unit >= b * v.d -> TRUE
           [] v.n < 0 /\ (v.d + 3 * v.n) * unit >= b * v.d -> TRUE
           [] v.n > 0 /\ v.n <= v.d /\ (v.d + 9 * v.n) * unit < b * v.d -> FALSE
           [] v.n < 0 /\ 0 - v.n <= v.d
                  /\ (10 * v.d + 9 * v.n) * unit < 10 * b * v.d -> FALSE

\* the variations + 1 evenly spaced points across [min, max], in grid order, in
\* the family's number type (whole semitones for pitch-shift)
EvenlySpaced(c) ==
    [k \in 1..(c.variations + 1) |->
        LET pt == LinspacePoint(c.min, c.max, Unit(c.effect_type), c.variations + 1, k - 1)
        IN  IF c.effect_type = "pitchshift"
            THEN Lin(Trunc(pt[1], pt[2]), 1)
            ELSE Lin(pt[1], pt[2])]

\* C18 (as claimed): in grid mode every value of the parameter set is one of
\* the variations + 1 evenly spaced points across [min, max] and lies within
\* [min, max], for time-stretch, pitch-shift and noise.
C18_GridWithinBounds ==
    (SamplingDone /\ ~config.randomized) =>
        \A v \in generated :
            /\ \E k \in DOMAIN EvenlySpaced(config) : EvenlySpaced(config)[k] = v
            /\ AtLeast(v, config.min, Unit(config.effect_type))
            /\ AtMost(v, config.max, Unit(config.effect_type))

\* C19 (as claimed): in grid mode, when more than `variations` points remain
\* after the identity value is dropped, the set kept is the first `variations`
\* grid points in grid order.
C19_TrimmedFromTheEnd ==
    (SamplingDone /\ ~config.randomized
        /\ Cardinality(Remove(GridSet(config), Identity(config.effect_type)))
              > config.variations) =>
        generated =
            {GridValue(config, LinspacePoint(config.min, config.max,
                                             Unit(config.effect_type),
                                             config.variations + 1, k - 1)) :
                k \in 1..config.variations}

\* C21: the randomized sampling of a family terminates.  No while loop makes
\* more than max_attempts draws for a slot, the slot index never passes
\* `variations`, and once the for loop over the slots is entered it is left,
\* whatever the bounds and the draws.
C21_SamplingTerminates ==
    /\ [](/\ attempts <= max_attempts
          /\ depth_attempts <= max_attempts
          /\ gain_attempts <= max_attempts
          /\ i <= config.variations)
    /\ (pc = "loop" ~> pc \in {"dispatch", "done"})

\* C21 witness: degenerate bounds, every draw the identity value: the first slot
\* used its ten attempts and fell back, the later slots were skipped, and the
\* call has returned
C21_Witness ==
    /\ pc = "done"
    /\ config.effect_type = "timestretch"
    /\ config.randomized
    /\ config.min = config.max
    /\ config.variations >= 2
    /\ i = config.variations
    /\ attempts = max_attempts
    /\ generated = {Identity("timestretch")}
    /\ "warning_exhausted" \in log

\* ===================================================== claims on SpecScan
\* C5: no file name the pipeline produced is among the files main selects for
\* augmentation, on the first scan and on every later one.
C5_ProducedNeverSelected == audio_files \cap produced = {}

\* C5 witness: a scan ran over a directory that holds a merged output and an
\* effect output
C5_Witness ==
    /\ produced \subseteq listing
    /\ audio_files # {}
    /\ \E f \in produced : Contains(f, <<"_", "m", "e", "r", "g", "e", "d">>)
    /\ \E f \in produced : ~Contains(f, <<"_", "m", "e", "r", "g", "e", "d">>)

\* ==================================================== claims on SpecMerge
\* merge_audios has been called
MergeCalled == \E k \in DOMAIN calls : calls[k].fn = "merge_audios"

\* the files selected so far
Selected == {audios4merge[k] : k \in DOMAIN audios4merge}

\* the audio files of the input directory other than the current file
OtherAudioFiles == grab_audios(input_directory) \ {standardized_audio}

\* C7 (as claimed): the enabled merge family calls merge_audios if and only if
\* the other audio files of the input directory are at least merge_num; when it
\* does not, it logs the error and returns the empty list.
C7_MergeIffEnoughCandidates ==
    (pc = "done" /\ config.effect_type = "merge" /\ config.enabled) =>
        /\ MergeCalled <=> Cardinality(OtherAudioFiles) >= config.merge_num
        /\ ~MergeCalled => ("merge_impossible" \in log /\ new_ann_files = << >>)

\* C8 (as claimed): the candidate pool is every audio file of the input
\* directory other than the current file, and the selected files are pairwise
\* distinct and never the current file.
C8_PoolIsEveryOtherFile ==
    (config.effect_type = "merge" /\ config.enabled /\ pc \in {"select", "done"}) =>
        /\ target_audio_files \cup Selected = OtherAudioFiles
        /\ Cardinality(Selected) = Len(audios4merge)
        /\ standardized_audio \notin Selected

\* the merged annotation file, once merge_audios has written it
MergedAnnPath ==
    MergeOutputName(audios4merge, standardized_audio) \o <<".", "a", "n", "n">>

RECURSIVE SumLen(_)
SumLen(texts) == IF Len(texts) = 0 THEN 0 ELSE Len(texts[1]) + SumLen(Tail(texts))

\* the temp annotations of the selected files in selection order, then the
\* current file's
SourceTexts ==
    [k \in 1..(Len(audios4merge) + 1) |->
        IF k <= Len(audios4merge)
        THEN ann_files[TempAnnPath(audios4merge[k])]
        ELSE ann_files[TempAnnPath(standardized_audio)]]

\* C9: the merged annotation is the selected files' temp annotations in
\* selection order followed by the current file's: every source line is there
\* unchanged, and the line count is the sum of the sources' counts.
C9_MergedIsConcatenation ==
    (pc = "done" /\ MergedAnnPath \in DOMAIN ann_files) =>
        LET merged == ann_files[MergedAnnPath]
        IN  /\ Len(merged) = SumLen(SourceTexts)
            /\ \A k \in DOMAIN SourceTexts :
                 LET before == SumLen(SubSeq(SourceTexts, 1, k - 1))
                 IN  SubSeq(merged, before + 1, before + Len(SourceTexts[k]))
                        = SourceTexts[k]

\* C9 witness: two selected files and the current file were merged
C9_Witness ==
    /\ pc = "done"
    /\ MergedAnnPath \in DOMAIN ann_files
    /\ Len(audios4merge) = 2
    /\ Len(ann_files[MergedAnnPath]) >= 4

\* ===================================================== claims on SpecExec
RECURSIVE Flatten(_)
\* the lists of a sequence of lists, one after the other
Flatten(lists) == IF Len(lists) = 0 THEN << >> ELSE lists[1] \o Flatten(Tail(lists))

\* every family unit has completed
AllUnitsDone ==
    IF num_workers > 1
    THEN \A k \in DOMAIN futures : futures[k] = "done"
    ELSE Len(collected) = Len(effect_types)

\* C10: all_ann_files is at every point the lists of the families collected so
\* far, in the family order of effect_types (so it is the concatenation of all
\* seven lists in that order once the collection is over), whatever order the
\* units completed in, and no annotation file is converted before every family
\* unit has completed.
C10_SubmissionOrder ==
    /\ all_ann_files = Flatten([k \in 1..Len(collected) |-> results[k]])
    /\ Len(collected) = Len(effect_types) => all_ann_files = Flatten(results)
    /\ converted # << >> => AllUnitsDone

\* C10 witness: with several workers a unit overtook an earlier one, both
\* returned files, and the conversion has started
C10_Witness ==
    /\ num_workers > 1
    /\ overtaken
    /\ results[2] # << >>
    /\ results[3] # << >>
    /\ converted # << >>

\* C11: a unit whose body raised outside the per-variant handlers ends in the
\* outer handler with the empty list, process_files does not raise, and once
\* process_files is over every family has been executed and collected, with
\* one worker and with several.
C11_UnitErrorContained ==
    /\ exec_pc # "raised"
    /\ \A k \in DOMAIN unit_exit : unit_exit[k] # "escaped"
    /\ \A k \in DOMAIN unit_exit : unit_exit[k] = "caught" => results[k] = << >>
    /\ exec_pc = "done" =>
          /\ \A k \in DOMAIN unit_exit : unit_exit[k] \in {"return", "caught"}
          /\ collected = [k \in DOMAIN effect_types |-> k]

\* C11 witness: with several workers a unit raised, a later family still
\* returned files, they were collected and process_files returned
C11_Witness ==
    /\ exec_pc = "done"
    /\ num_workers > 1
    /\ \E k \in DOMAIN unit_exit :
          /\ unit_exit[k] = "caught"
          /\ \E j \in (k + 1)..Len(results) :
                results[j] # << >> /\ \A n \in DOMAIN results[j] :
                    \E m \in DOMAIN all_ann_files : all_ann_files[m] = results[j][n]

\* C16 (as claimed): when process_files returns, every annotation file its
\* families produced has been handed to ann_to_midi and none is left on disk,
\* whatever variants or conversions failed.
C16_NoAnnotationSurvives ==
    exec_pc = "done" =>
        /\ ann_on_disk = {}
        /\ \A k \in DOMAIN results : \A f \in Written(results[k]) :
              \E n \in DOMAIN converted : converted[n].file = f

\* ==================================================== claims on SpecCodec
\* a decimal number: an optional sign, digits with at most one point
IsDecimalText(f) ==
    LET parts == Split(Unsigned(f), ".")
    IN  /\ Len(parts) <= 2
        /\ \A k \in DOMAIN parts : AllDigits(parts[k])
        /\ \E k \in DOMAIN parts : Len(parts[k]) > 0

\* an integer: an optional sign and digits
IsIntegerText(f) == Len(Unsigned(f)) > 0 /\ AllDigits(Unsigned(f))

\* four fields: numeric onset and offset, integer pitch and velocity
FourFields(fs) ==
    /\ Len(fs) = 4
    /\ IsDecimalText(fs[1])
    /\ IsDecimalText(fs[2])
    /\ IsIntegerText(fs[3])
    /\ IsIntegerText(fs[4])

\* the tab-separated fields of a line as written, without its newline
FieldsAsWritten(line) ==
    Split(IF Len(line) > 0 /\ line[Len(line)] = "\n"
          THEN SubSeq(line, 1, Len(line) - 1) ELSE line, "\t")

\* the tab-separated fields of a line without its leading and trailing whitespace
FieldsStripped(line) == Split(Strip(line), "\t")

\* the lines read so far that are well-formed as written / once stripped
WellFormedAsWritten ==
    {k \in 1..line_idx : FourFields(FieldsAsWritten(ann_text[k]))}

WellFormedStripped ==
    {k \in 1..line_idx : FourFields(FieldsStripped(ann_text[k]))}

\* the event a well-formed line denotes
EventOfLine(line) ==
    LET fs == FieldsStripped(line)
    IN  [velocity |-> ParseInt(fs[4]).value, pitch |-> ParseInt(fs[3]).value,
         start |-> ParseFloat(fs[1]).value, end |-> ParseFloat(fs[2]).value]

RECURSIVE EventsUpTo(_, _)
\* the events of the lines 1..n whose number is in wf, in line order
EventsUpTo(n, wf) ==
    IF n = 0 THEN << >>
    ELSE IF n \in wf
         THEN Append(EventsUpTo(n - 1, wf), EventOfLine(ann_text[n]))
         ELSE EventsUpTo(n - 1, wf)

\* ann_to_midi encodes the lines of wf and no other, and the annotation decoded
\* from the MIDI file holds the same events
EncodesExactly(wf) ==
    /\ notes = EventsUpTo(line_idx, wf)
    /\ warnings = (1..line_idx) \ wf
    /\ codec_pc = "decoded" =>
          /\ Len(ann_out) = Cardinality(wf)
          /\ \A k \in DOMAIN ann_out :
                /\ FourFields(FieldsAsWritten(ann_out[k]))
                /\ EventOfLine(ann_out[k]) = EventsUpTo(line_idx, wf)[k]

MatchedPairs == {f \in Unprocessed(input_directory) : MatchingMidi(f) \in input_directory}

\* C13 (as claimed): an unprocessed audio file without its MIDI file does not
\* end the run: main never stops in the generation loop, and when it is done
\* it has generated annotations for and processed every matched pair and logged
\* the summary.
C13_MissingMidiNotFatal ==
    /\ main_pc # "crashed"
    /\ main_pc = "done" =>
          /\ "summary" \in main_log
          /\ processed_count = Cardinality(MatchedPairs)
          /\ \A f \in MatchedPairs :
                \E k \in DOMAIN audio_files_described : audio_files_described[k] = f

\* C15 (as claimed): every read of a temp annotation is by the processing of the
\* pair that owns it, and a pair's temp annotation is gone once that pair's
\* processing step is over.
C15_TempOwnedByPair ==
    /\ \A r \in temp_reads : r.path = TempAnnPath(r.pair)
    /\ \A k \in DOMAIN audio_files_described :
          (k < pair_idx \/ (k = pair_idx /\ pair_pc = "idle")) =>
              TempAnnPath(audio_files_described[k]) \notin DOMAIN ann_files

\* C15 (amended): a temp annotation is read by the families of its own pair
\* and by the merge family of the pairs that selected its audio file, and no
\* temp annotation is deleted before every pair has been processed.
C15_TempSharedUntilEnd ==
    /\ \A r \in temp_reads :
          \/ r.path = TempAnnPath(r.pair)
          \/ /\ r.family = "merge"
             /\ \E x \in grab_audios(input_directory) \ {r.pair} : r.path = TempAnnPath(x)
    /\ main_pc \in {"gen", "process", "summary", "delete"} =>
          \A k \in DOMAIN audio_files_described :
              TempAnnPath(audio_files_described[k]) \in DOMAIN ann_files
    /\ main_pc = "done" =>
          \A k \in DOMAIN audio_files_described :
              TempAnnPath(audio_files_described[k]) \notin DOMAIN ann_files

\* C15 witness: the merge family of the second pair read the temp annotation of
\* the first pair after the first pair had been processed
C15_Witness ==
    /\ main_pc = "done"
    /\ processed_count = 2
    /\ \E r \in temp_reads :
          /\ r.family = "merge"
          /\ r.found
          /\ r.pair = audio_files_described[2]
          /\ r.path = TempAnnPath(audio_files_described[1])

\* C20 (as claimed): every temp annotation the merge family opens exists, and
\* while the pairs are processed every file the merge family can select has
\* its temp annotation on disk.
C20_MergeSourcesHaveAnnotations ==
    /\ \A r \in temp_reads : r.found
    /\ (main_pc = "process" /\ pair_pc = "merge" /\ config.enabled) =>
          \A x \in MergePool(input_directory, standardized_audio) :
              TempAnnPath(x) \in DOMAIN ann_files

\* ========================================================= specifications
SpecEffect == EffectInit /\ [][EffectNext]_vars

\* process_effect runs in one thread: a step that can be taken is taken
SpecEffectLive == EffectInit /\ [][EffectNext]_vars /\ WF_vars(EffectNext)

SpecScan == ScanInit /\ [][ScanNext]_vars

SpecMerge == MergeInit /\ [][MergeNext]_vars

SpecExec == ExecInit /\ [][ExecNext]_vars

SpecCodec == CodecInit /\ [][CodecNext]_vars

SpecMain == MainInit /\ [][MainNext]_vars

====
